---- MODULE Spec2Model ----
(***************************************************************************)
(* epicgames-promo-watcher: src/src/main.ts.                               *)
(*                                                                         *)
(* main() calls handlePromotions() once and registers it with setInterval. *)
(* handlePromotions awaits EpicGamesService.checkPromotions(), which       *)
(* awaits fetch(), then res.json(), maps every element of the payload      *)
(* through Promotion.New and returns Some(valid promotions) or None.       *)
(*                                                                         *)
(* JavaScript values are tagged records: Str(s), Undefined, a Date with    *)
(* its time value (epoch seconds instead of milliseconds, to stay inside   *)
(* 32-bit integers) or an invalid Date.                                    *)
(***************************************************************************)
EXTENDS Integers, Sequences, FiniteSets, TLC

VARIABLES
    started,            \* main() has run: first call made, interval registered
    pc,                 \* per handlePromotions invocation: where it is suspended
    escaped,            \* a rejection left handlePromotions (unhandled rejection)
    response,           \* what the most recently finished cycle got from fetch/json
    props,              \* the candidates that cycle passed to Promotion.New
    promotionsResults,  \* the Results its map() produced (up to a throw)
    promosOption,       \* what its checkPromotions() resolved to
    console             \* what that cycle wrote with console.log

vars == <<started, pc, escaped, response, props, promotionsResults,
          promosOption, console>>

\* ---------------------------------------------------------------- bounds

MaxCycles == 3
MaxElems == 2

Cycles == 1..MaxCycles

\* ------------------------------------------------------ JavaScript values

Str(s) == [type |-> "string", val |-> s]
Undefined == [type |-> "undefined"]
TypeError == [type |-> "TypeError"]
InvalidDate == [type |-> "Date", valid |-> FALSE]
ValidDate(t) == [type |-> "Date", valid |-> TRUE, time |-> t]

None == [type |-> "None"]
Some(v) == [type |-> "Some", value |-> v]
Pending == [type |-> "Pending"]

Ok(v) == [ok |-> TRUE, value |-> v]
Err(e) == [ok |-> FALSE, error |-> e]

\* new Date(v) for the values a JSON payload can hold at startDate/endDate:
\* an ISO-8601 string parses to its instant, anything else is an invalid Date.
NewDate(v) ==
    IF v = Str("2024-01-01T00:00:00Z") THEN ValidDate(1704067200)
    ELSE IF v = Str("2024-01-01T00:00:00.000Z") THEN ValidDate(1704067200)
    ELSE IF v = Str("2024-01-08T00:00:00Z") THEN ValidDate(1704672000)
    ELSE InvalidDate

\* `${v}` in a template literal.
Interpolate(v) == IF v.type = "string" THEN v.val ELSE "undefined"

\* arr[0]: undefined on an empty array.
Index0(arr) == IF Len(arr) > 0 THEN arr[1] ELSE Undefined

\* ------------------------------------------------- the payload (the input)

\* One inner offer {startDate, endDate}; discountSetting is never read.
Window(s, e) == [startDate |-> s, endDate |-> e]
\* One window group {promotionalOffers: [...]}.
Group(ws) == [promotionalOffers |-> ws]
\* One element of data.Catalog.searchStore.elements.
Element(t, d, slug, po, up) ==
    [title |-> t, description |-> d, productSlug |-> slug,
     promotions |-> [promotionalOffers |-> po,
                     upcomingPromotionalOffers |-> up]]

Jan1 == Str("2024-01-01T00:00:00Z")
Jan8 == Str("2024-01-08T00:00:00Z")

Titles == {Str("A"), Undefined}
Descriptions == {Str("B"), Undefined}
Slugs == {Str("abc"), Str(""), Str("[]"), Undefined}
DateVals == {Jan1, Jan8, Str("soon")}
Windows ==
    {Window(s, e) : s \in DateVals, e \in DateVals}
        \cup {Window(Str("2024-01-01T00:00:00.000Z"), Jan8),
              Window(Undefined, Jan8)}
WindowLists ==
    {<<>>} \cup {<<w>> : w \in Windows}
           \cup {<<w, Window(Jan8, Jan8)>> : w \in Windows}
OfferLists ==
    {<<>>} \cup {<<Group(ws)>> : ws \in WindowLists}
           \cup {<<Group(ws), Group(<<Window(Jan1, Jan1)>>)>> : ws \in WindowLists}

Elements ==
    {Element(t, d, slug, po, up) :
        t \in Titles, d \in Descriptions, slug \in Slugs,
        po \in OfferLists, up \in OfferLists}

\* The elements the scheduler's cycles are fed with.
ValidCurrent ==
    Element(Str("A"), Str("B"), Str("abc"), <<Group(<<Window(Jan1, Jan8)>>)>>, <<>>)
ValidUpcoming ==
    Element(Str("A"), Str("B"), Str("[]"), <<>>, <<Group(<<Window(Jan8, Jan8)>>)>>)
MissingTitle ==
    Element(Undefined, Str("B"), Str("abc"), <<Group(<<Window(Jan1, Jan8)>>)>>, <<>>)
NoWindows ==
    Element(Str("A"), Str("B"), Str("abc"), <<>>, <<>>)
EmptyGroup ==
    Element(Str("A"), Str("B"), Str("abc"), <<Group(<<>>)>>,
            <<Group(<<Window(Jan8, Jan8)>>)>>)
SampleElements == {ValidCurrent, ValidUpcoming, MissingTitle, NoWindows, EmptyGroup}

RECURSIVE SeqsUpTo(_, _)
SeqsUpTo(S, n) ==
    IF n = 0 THEN {<<>>}
    ELSE LET shorter == SeqsUpTo(S, n - 1)
         IN  shorter \cup {Append(q, x) : q \in {r \in shorter : Len(r) = n - 1}, x \in S}

\* What `await res.json()` can deliver: a rejection (malformed JSON), a body
\* without data.Catalog.searchStore.elements, or a list of elements.
Bodies ==
    {[kind |-> "bad_json"], [kind |-> "no_keys"]}
        \cup {[kind |-> "elements", elements |-> b] : b \in SeqsUpTo(SampleElements, MaxElems)}

\* ------------------------------------------------------------ Promotion

HolidaySale == "https://store.epicgames.com/pt-BR/sales-and-specials/holiday-sale"
ProductPage(slug) == "https://store.epicgames.com/pt-BR/p/" \o slug

\* The strings `new URL(s)` accepts among those the program can build: an
\* https scheme, a host, any path.
AbsoluteUrls == {HolidaySale} \cup {ProductPage(Interpolate(s)) : s \in Slugs}

ZString(v) == v.type = "string"
ZUrl(v) == v.type = "string" /\ v.val \in AbsoluteUrls
ZDate(v) == v.type = "Date" /\ v.valid

\* Variant: a date check that accepts an invalid Date (any Date instance).
promotionSchemeAnyDate(p) ==
    SelectSeq(<<"title", "description", "url", "startDate", "endDate">>,
              LAMBDA f : CASE f = "title" -> ~ZString(p.title)
                           [] f = "description" -> ~ZString(p.description)
                           [] f = "url" -> ~ZUrl(p.url)
                           [] f = "startDate" -> p.startDate.type # "Date"
                           [] f = "endDate" -> p.endDate.type # "Date")

\* promotionScheme.safeParse(p): the paths of the fields that fail.
promotionScheme(p) ==
    SelectSeq(<<"title", "description", "url", "startDate", "endDate">>,
              LAMBDA f : CASE f = "title" -> ~ZString(p.title)
                           [] f = "description" -> ~ZString(p.description)
                           [] f = "url" -> ~ZUrl(p.url)
                           [] f = "startDate" -> ~ZDate(p.startDate)
                           [] f = "endDate" -> ~ZDate(p.endDate))

\* Promotion.New
New(p) ==
    LET issues == promotionScheme(p)
    IN  IF issues # <<>> THEN Err(issues) ELSE Ok(p)

\* ------------------------------------------------- the per-element mapping

\* productSlug === "[]" || ""   (=== binds tighter than ||; "" is falsy)
UseFallbackUrl(promo) == (promo.productSlug = Str("[]")) \/ FALSE

ResolveUrl(promo) ==
    IF UseFallbackUrl(promo)
    THEN Str(HolidaySale)
    ELSE Str(ProductPage(Interpolate(promo.productSlug)))

\* Variant: the upcoming list is preferred whenever it is non-empty.
SelectedOffersUpcomingFirst(promo) ==
    IF Len(promo.promotions.upcomingPromotionalOffers) > 0
    THEN promo.promotions.upcomingPromotionalOffers
    ELSE promo.promotions.promotionalOffers

\* promotionalOffers.length > 0 ? promotionalOffers : upcomingPromotionalOffers
SelectedOffers(promo) ==
    IF Len(promo.promotions.promotionalOffers) > 0
    THEN promo.promotions.promotionalOffers
    ELSE promo.promotions.upcomingPromotionalOffers

\* Variant: the last entry of the first group is read instead of the first.
OfferEntryLast(promo) ==
    LET group == Index0(SelectedOffers(promo))
    IN  IF group = Undefined THEN TypeError
        ELSE IF group.promotionalOffers = <<>> THEN Undefined
        ELSE group.promotionalOffers[Len(group.promotionalOffers)]

\* <selected>[0].promotionalOffers[0]: reading a property of undefined throws.
OfferEntry(promo) ==
    LET group == Index0(SelectedOffers(promo))
    IN  IF group = Undefined THEN TypeError
        ELSE Index0(group.promotionalOffers)

\* The argument of Promotion.New, or the TypeError raised while building it.
PromotionProps(promo) ==
    LET entry == OfferEntry(promo)
    IN  IF entry = TypeError \/ entry = Undefined THEN TypeError
        ELSE [description |-> promo.description,
              title |-> promo.title,
              url |-> ResolveUrl(promo),
              startDate |-> NewDate(entry.startDate),
              endDate |-> NewDate(entry.endDate)]

\* elements.map(promo => Promotion.New({...})), left to right, up to a throw.
RECURSIVE MapElements(_, _)
MapElements(elements, acc) ==
    IF elements = <<>> THEN acc
    ELSE LET p == PromotionProps(Head(elements))
         IN  IF p = TypeError
             THEN [acc EXCEPT !.thrown = TRUE]
             ELSE MapElements(Tail(elements),
                              [thrown |-> FALSE,
                               props |-> Append(acc.props, p),
                               results |-> Append(acc.results, New(p))])

\* --------------------------------------------------------- checkPromotions

Returned(v, log, m) ==
    [thrown |-> FALSE, value |-> v, console |-> log,
     props |-> m.props, results |-> m.results]
Thrown(log, m) ==
    [thrown |-> TRUE, console |-> log, props |-> m.props, results |-> m.results]

NothingMapped == [thrown |-> FALSE, props |-> <<>>, results |-> <<>>]

\* Lines 58-104, run once res.json() has settled with `body`.
NormalizeBody(body) ==
    IF body.kind # "elements" THEN Thrown(<<>>, NothingMapped)
    ELSE LET m == MapElements(body.elements, NothingMapped)
             validPromoResults == SelectSeq(m.results, LAMBDA r : r.ok)
         IN  IF m.thrown THEN Thrown(<<>>, m)
             ELSE IF Len(validPromoResults) = 0
             THEN Returned(None,
                           <<[tag |-> "no valid promotions",
                              invalidPromos |->
                                  [i \in 1..Len(m.results) |-> m.results[i].error]]>>,
                           m)
             ELSE Returned(Some([i \in 1..Len(validPromoResults) |->
                                     validPromoResults[i].value]),
                           <<>>, m)

\* Variant: no catch clause, the completion is passed on as it is.
TryCatchRethrow(c) == c

\* try { ... } catch (error) { console.log(...); return None(); }
TryCatch(c) ==
    IF c.thrown
    THEN Returned(None, Append(c.console, [tag |-> "something goes wrong"]), c)
    ELSE c

\* checkPromotions from the point where fetch() has settled.
FetchRejected == TryCatch(Thrown(<<>>, NothingMapped))
ResponseNotOk == TryCatch(Returned(None, <<[tag |-> "headers"]>>, NothingMapped))
checkPromotions(body) == TryCatch(NormalizeBody(body))

\* -------------------------------------------------------- handlePromotions

\* Lines 113-121, run once checkPromotions() has settled as `c`; updatedAt
\* (the wall clock) is left out of the logged promoOutput.
HandleConsole(c) ==
    IF c.thrown \/ c.value = None THEN c.console
    ELSE Append(c.console, [tag |-> "promoOutput", promotions |-> c.value.value])

handlePromotions(cycle, got, c) ==
    /\ pc' = [pc EXCEPT ![cycle] = "done"]
    /\ escaped' = c.thrown
    /\ response' = got
    /\ props' = c.props
    /\ promotionsResults' = c.results
    /\ promosOption' = IF c.thrown THEN [type |-> "Rejected"] ELSE c.value
    /\ console' = HandleConsole(c)
    /\ UNCHANGED started

\* ------------------------------------------------------------- the actions

Idle == {c \in Cycles : pc[c] = "idle"}
InFlight == {c \in Cycles : pc[c] \in {"fetch", "json"}}

\* A call of handlePromotions runs up to `await fetch(...)`.
StartCycle ==
    /\ Idle # {}
    /\ pc' = [pc EXCEPT ![CHOOSE c \in Idle : \A d \in Idle : c <= d] = "fetch"]

\* main(): the immediate call, then setInterval(handlePromotions, 60_000).
main ==
    /\ ~started
    /\ started' = TRUE
    /\ StartCycle
    /\ UNCHANGED <<escaped, response, props, promotionsResults, promosOption, console>>

\* The interval timer fires: nothing looks at the cycles still in flight.
Tick ==
    /\ started
    /\ ~escaped
    /\ StartCycle
    /\ UNCHANGED <<started, escaped, response, props, promotionsResults,
                   promosOption, console>>

\* fetch() rejects (network error).
FetchRejects(c) ==
    /\ ~escaped
    /\ pc[c] = "fetch"
    /\ handlePromotions(c, [kind |-> "fetch_rejected"], FetchRejected)

\* fetch() resolves with a non-2xx response.
FetchNotOk(c) ==
    /\ ~escaped
    /\ pc[c] = "fetch"
    /\ handlePromotions(c, [kind |-> "not_ok"], ResponseNotOk)

\* fetch() resolves with res.ok: the cycle is suspended again at res.json().
FetchOk(c) ==
    /\ ~escaped
    /\ pc[c] = "fetch"
    /\ pc' = [pc EXCEPT ![c] = "json"]
    /\ UNCHANGED <<started, escaped, response, props, promotionsResults,
                   promosOption, console>>

\* res.json() settles; the rest of the cycle runs to its end.
JsonSettles(c) ==
    /\ ~escaped
    /\ pc[c] = "json"
    /\ \E body \in Bodies : handlePromotions(c, body, checkPromotions(body))

Init ==
    /\ started = FALSE
    /\ pc = [c \in Cycles |-> "idle"]
    /\ escaped = FALSE
    /\ response = [kind |-> "none"]
    /\ props = <<>>
    /\ promotionsResults = <<>>
    /\ promosOption = Pending
    /\ console = <<>>

Next ==
    \/ main
    \/ Tick
    \/ \E c \in Cycles : FetchRejects(c)
    \/ \E c \in Cycles : FetchNotOk(c)
    \/ \E c \in Cycles : FetchOk(c)
    \/ \E c \in Cycles : JsonSettles(c)

Spec == Init /\ [][Next]_vars

\* ---------------------------------- one element through checkPromotions

\* The first cycle is suspended at res.json(), which is about to deliver a
\* payload of one element, any of Elements.
InitElement ==
    /\ started = TRUE
    /\ pc = [c \in Cycles |-> IF c = 1 THEN "json" ELSE "idle"]
    /\ escaped = FALSE
    /\ response \in {[kind |-> "elements", elements |-> <<e>>] : e \in Elements}
    /\ props = <<>>
    /\ promotionsResults = <<>>
    /\ promosOption = Pending
    /\ console = <<>>

Normalize ==
    /\ pc[1] = "json"
    /\ handlePromotions(1, response, checkPromotions(response))

NextElement == Normalize

ElementSpec == InitElement /\ [][NextElement]_vars

\* ------------------------------------------------------------ properties

\* A cycle has finished and it had read a list of elements.
CycleOverElements == promosOption # Pending /\ response.kind = "elements"

PromoOutputs == SelectSeq(console, LAMBDA l : l.tag = "promoOutput")
Diagnostics == SelectSeq(console, LAMBDA l : l.tag # "promoOutput")

\* The rejection records the finished cycle kept: those it logged.
RetainedRejections ==
    LET logged == SelectSeq(console, LAMBDA l : l.tag = "no valid promotions")
    IN  IF logged = <<>> THEN <<>> ELSE logged[1].invalidPromos

\* The promotions the finished cycle reported.
ReportedPromotions == IF promosOption.type = "Some" THEN promosOption.value ELSE <<>>

BothListsEmpty(promo) ==
    /\ promo.promotions.promotionalOffers = <<>>
    /\ promo.promotions.upcomingPromotionalOffers = <<>>

\* The window group the element's window is read from exists, with no entry.
SelectedGroupEmpty(promo) ==
    LET po == promo.promotions.promotionalOffers
        up == promo.promotions.upcomingPromotionalOffers
    IN  \/ po # <<>> /\ po[1].promotionalOffers = <<>>
        \/ po = <<>> /\ up # <<>> /\ up[1].promotionalOffers = <<>>

\* C1: cycles never overlap: at most one handlePromotions invocation is in
\* flight (suspended at fetch() or res.json()) in every reachable state.
C1_CyclesNeverOverlap == Cardinality(InFlight) <= 1

\* C2: no error escapes a cycle: no rejection ever leaves handlePromotions;
\* a cycle that failed (fetch rejected, non-200, malformed JSON, missing keys,
\* an element that throws, or no valid element) resolved to None, wrote a
\* diagnostic and no promoOutput; and the interval can still start the next
\* cycle.
C2_NoErrorEscapes ==
    /\ ~escaped
    /\ promosOption.type \in {"Pending", "None", "Some"}
    /\ (\/ response.kind \in {"fetch_rejected", "not_ok", "bad_json", "no_keys"}
        \/ /\ CycleOverElements
           /\ \/ Len(promotionsResults) < Len(response.elements)
              \/ \A i \in 1..Len(promotionsResults) : ~promotionsResults[i].ok)
       => /\ promosOption = None
          /\ PromoOutputs = <<>>
          /\ Diagnostics # <<>>
    /\ (started /\ Idle # {}) => ENABLED Tick

\* C2 witness: a cycle whose element threw ended in None with a diagnostic,
\* and a later cycle has been started.
C2_Witness ==
    /\ CycleOverElements
    /\ Len(promotionsResults) < Len(response.elements)
    /\ promosOption = None
    /\ console = <<[tag |-> "something goes wrong"]>>
    /\ pc[1] = "done"
    /\ pc[2] = "fetch"

\* C3: in a batch whose elements all reach validation, a failing element does
\* not abort the batch: the cycle reports one Promotion per valid element and
\* keeps one rejection record per invalid element.
C3_OnePerElement ==
    (CycleOverElements /\ Len(promotionsResults) = Len(response.elements))
        => /\ Len(ReportedPromotions) =
                  Cardinality({i \in 1..Len(promotionsResults) : promotionsResults[i].ok})
           /\ Len(RetainedRejections) =
                  Cardinality({i \in 1..Len(promotionsResults) : ~promotionsResults[i].ok})

\* C4: an element whose promotionalOffers and upcomingPromotionalOffers are
\* both empty is rejected on its own: it gets an Err result, no Promotion, and
\* every other element of the batch is still mapped and, when valid, reported.
C4_BothEmptyRejected ==
    CycleOverElements =>
        \A i \in 1..Len(response.elements) :
            BothListsEmpty(response.elements[i])
                => /\ Len(promotionsResults) = Len(response.elements)
                   /\ ~promotionsResults[i].ok
                   /\ Len(ReportedPromotions) =
                          Cardinality({j \in 1..Len(promotionsResults) :
                                          promotionsResults[j].ok})

\* C5: the resolved URL is the seasonal-sale fallback when productSlug is
\* absent, "" or "[]", and the product page with the slug otherwise.
C5_UrlResolution ==
    CycleOverElements =>
        \A i \in 1..Len(props) :
            LET slug == response.elements[i].productSlug
            IN  props[i].url =
                    IF slug \in {Undefined, Str(""), Str("[]")}
                    THEN Str(HolidaySale)
                    ELSE Str(ProductPage(slug.val))

\* C6: a cycle writes promoOutput exactly once if and only if at least one
\* element of its batch became a valid Promotion, never more than once, and
\* never with an empty promotions list.
C6_EmitIffValid ==
    CycleOverElements =>
        /\ Len(PromoOutputs) <= 1
        /\ Len(PromoOutputs) = 1
               <=> \E i \in 1..Len(promotionsResults) : promotionsResults[i].ok
        /\ \A k \in 1..Len(PromoOutputs) : PromoOutputs[k].promotions # <<>>

\* C7: for an element whose promotionalOffers is non-empty (and whose first
\* group has an entry), the window handed to Promotion.New is the start and
\* end date of promotionalOffers[0].promotionalOffers[0], whatever
\* upcomingPromotionalOffers holds.
C7_CurrentWindow ==
    CycleOverElements =>
        \A i \in 1..Len(response.elements) :
            LET po == response.elements[i].promotions.promotionalOffers
            IN  (po # <<>> /\ po[1].promotionalOffers # <<>> /\ Len(props) >= i - 1)
                    => /\ Len(props) >= i
                       /\ props[i].startDate = NewDate(po[1].promotionalOffers[1].startDate)
                       /\ props[i].endDate = NewDate(po[1].promotionalOffers[1].endDate)
                       /\ po[1].promotionalOffers[1].startDate = Jan1
                              => props[i].startDate = ValidDate(1704067200)

\* C7 witness: both lists hold an entry, with different dates, and the
\* candidate carries the dates of the current one.
C7_Witness ==
    /\ CycleOverElements
    /\ Len(props) = 1
    /\ response.elements[1].promotions.promotionalOffers
           = <<Group(<<Window(Jan1, Jan8)>>)>>
    /\ response.elements[1].promotions.upcomingPromotionalOffers
           = <<Group(<<Window(Jan8, Jan1)>>)>>
    /\ props[1].startDate = ValidDate(1704067200)
    /\ props[1].endDate = ValidDate(1704672000)

\* C8: for an element whose promotionalOffers is empty and whose
\* upcomingPromotionalOffers is non-empty (its first group holding an entry),
\* the window handed to Promotion.New is the start and end date of
\* upcomingPromotionalOffers[0].promotionalOffers[0].
C8_UpcomingWindow ==
    CycleOverElements =>
        \A i \in 1..Len(response.elements) :
            LET po == response.elements[i].promotions.promotionalOffers
                up == response.elements[i].promotions.upcomingPromotionalOffers
            IN  (po = <<>> /\ up # <<>> /\ up[1].promotionalOffers # <<>>
                    /\ Len(props) >= i - 1)
                    => /\ Len(props) >= i
                       /\ props[i].startDate = NewDate(up[1].promotionalOffers[1].startDate)
                       /\ props[i].endDate = NewDate(up[1].promotionalOffers[1].endDate)
                       /\ up[1].promotionalOffers[1].endDate = Jan8
                              => props[i].endDate = ValidDate(1704672000)

\* C8 witness: no current offer, two upcoming groups, the first with two
\* entries: the candidate carries the dates of the first entry of the first.
C8_Witness ==
    /\ CycleOverElements
    /\ Len(props) = 1
    /\ response.elements[1].promotions.promotionalOffers = <<>>
    /\ response.elements[1].promotions.upcomingPromotionalOffers
           = <<Group(<<Window(Jan1, Jan8), Window(Jan8, Jan8)>>),
               Group(<<Window(Jan1, Jan1)>>)>>
    /\ props[1].startDate = ValidDate(1704067200)
    /\ props[1].endDate = ValidDate(1704672000)

\* A Promotion whose every field satisfies the schema.
WellFormed(p) ==
    /\ p.title.type = "string"
    /\ p.description.type = "string"
    /\ p.url.type = "string" /\ p.url.val \in AbsoluteUrls
    /\ p.startDate.type = "Date" /\ p.startDate.valid /\ p.startDate.time \in Int
    /\ p.endDate.type = "Date" /\ p.endDate.valid /\ p.endDate.time \in Int

\* C9: every Promotion that Promotion.New returns as Ok, that checkPromotions
\* returns or that a cycle logs satisfies the whole schema, and a candidate
\* failing any field gets an Err and no Promotion.
C9_OnlyValidPromotions ==
    CycleOverElements =>
        /\ \A i \in 1..Len(promotionsResults) :
               /\ promotionsResults[i].ok <=> WellFormed(props[i])
               /\ promotionsResults[i].ok => promotionsResults[i].value = props[i]
               /\ ~promotionsResults[i].ok => promotionsResults[i].error # <<>>
        /\ \A k \in 1..Len(ReportedPromotions) : WellFormed(ReportedPromotions[k])
        /\ \A k \in 1..Len(PromoOutputs) :
               \A j \in 1..Len(PromoOutputs[k].promotions) :
                   WellFormed(PromoOutputs[k].promotions[j])

\* C9 witness: a candidate whose only defect is an invalid endDate was turned
\* down with that field named, and no Promotion came out of the cycle.
C9_Witness ==
    /\ CycleOverElements
    /\ Len(promotionsResults) = 1
    /\ promotionsResults[1] = Err(<<"endDate">>)
    /\ props[1].startDate = ValidDate(1704067200)
    /\ promosOption = None
    /\ PromoOutputs = <<>>

\* C10: an element whose selected window group exists but holds no entry is
\* rejected on its own: it gets an Err result and every other element of the
\* batch is still mapped and, when valid, reported.
C10_MissingEntryRejected ==
    CycleOverElements =>
        \A i \in 1..Len(response.elements) :
            SelectedGroupEmpty(response.elements[i])
                => /\ Len(promotionsResults) = Len(response.elements)
                   /\ ~promotionsResults[i].ok
                   /\ Len(ReportedPromotions) =
                          Cardinality({j \in 1..Len(promotionsResults) :
                                          promotionsResults[j].ok})

====
